---- MODULE Spec2Model ----
(***************************************************************************)
(* HC Self-Service Portal: the Google Apps Script backend.                 *)
(*                                                                         *)
(* Two backends live in the repository: Webapp.gs (handle* functions that  *)
(* return ContentService JSON) and the older Code.gs of the README         *)
(* (src/unnamed/part_000: getPrograms, verifyEmail, getRequests,           *)
(* submitRequest wrapped by its own doPost).  Both are modelled; the       *)
(* variable backend says which one is deployed.                            *)
(*                                                                         *)
(* JavaScript values are tagged records so that values of different types  *)
(* can be compared: Str(s), DateOf(t), Arr(a), Undefined.                  *)
(***************************************************************************)
EXTENDS Integers, Sequences, FiniteSets, TLC

VARIABLES
  backend,      \* which script is deployed: "Webapp.gs" or "Code.gs"
  masterSheet,  \* the MASTER sheet: NoSheet, or its 2-D values (header row first)
  regSheets,    \* spreadsheet id -> Unreachable, or the 2-D values of its first tab
  outputSheet,  \* the NewPortalRequests sheet: NoSheet, or its rows
  secret,       \* Script Property RECAPTCHA_SECRET (a JS value)
  now,          \* the wall clock, in ticks
  request,      \* e.parameter of the last doPost call
  response,     \* the object the last doPost call returned as JSON
  trace,        \* what the last call did, in order
  entry,        \* clock and output sheet when the last call began, and its environment
  fnArgs,       \* arguments of the last direct call of a utility function
  fnResult,     \* and what it returned
  running,      \* the doPost executions in flight at the same time, and the store they share
  page          \* the portal page in a browser: state, elements, calls awaiting a response

vars == <<backend, masterSheet, regSheets, outputSheet, secret, now,
          request, response, trace, entry, fnArgs, fnResult, running, page>>

-----------------------------------------------------------------------------
(* Bounds *)

TicksPerDay == 2   \* clock resolution: instants per day
MaxDay == 1        \* days 0..MaxDay
MaxRows == 2       \* data rows of a MASTER sheet (catalogue queries)
MaxRegRows == 3    \* data rows of a MASTER sheet (verifyEmail)
MaxOutput == 2     \* rows of the output sheet
MaxListRows == 2   \* data rows of a registration sheet
MaxScore == 10     \* reCAPTCHA scores are tenths: 0..MaxScore is 0.0..1.0
MaxOverlap == 2     \* doPost executions that run at the same time
MaxPending == 2     \* calls of the page that await their response at the same time

MaxNow == MaxDay * TicksPerDay + TicksPerDay - 1
Ticks == 0..MaxNow

-----------------------------------------------------------------------------
(* JavaScript values *)

Undefined == [k |-> "undefined"]
Null == [k |-> "null"]
Str(s) == [k |-> "string", s |-> s]
DateOf(t) == [k |-> "date", t |-> t]
Arr(a) == [k |-> "array", a |-> a]

Blank == Str("")   \* getValues() gives "" for an empty cell

\* ToBoolean: what `if (v)` and `!v` see
Truthy(v) ==
  CASE v.k = "undefined" -> FALSE
    [] v.k = "null" -> FALSE
    [] v.k = "string" -> v.s # ""
    [] v.k = "date" -> TRUE
    [] v.k = "array" -> TRUE

\* String(v), and what Array.prototype.join makes of an element
ToStr(v) ==
  CASE v.k = "undefined" -> "undefined"
    [] v.k = "null" -> "null"
    [] v.k = "string" -> v.s
    [] v.k = "date" -> "Date"
    [] v.k = "array" -> "Array"

-----------------------------------------------------------------------------
(* Strings, character by character *)

Char(s, i) == SubSeq(s, i, i)

UpperAlphabet == "ABCDEFGHIJKLMNOPQRSTUVWXYZ"
LowerAlphabet == "abcdefghijklmnopqrstuvwxyz"

UpperChars == {Char(UpperAlphabet, i) : i \in 1..Len(UpperAlphabet)}
LowerMap ==
  [c \in UpperChars |->
     Char(LowerAlphabet, CHOOSE i \in 1..Len(UpperAlphabet) : Char(UpperAlphabet, i) = c)]

LowerOf(c) == IF c \in UpperChars THEN LowerMap[c] ELSE c

RECURSIVE toLowerCase(_)
toLowerCase(s) ==
  IF Len(s) = 0 THEN s
  ELSE LowerOf(Char(s, 1)) \o toLowerCase(SubSeq(s, 2, Len(s)))

IsSpace(c) == c = " "

RECURSIVE trimStart(_)
trimStart(s) ==
  IF Len(s) > 0 /\ IsSpace(Char(s, 1)) THEN trimStart(SubSeq(s, 2, Len(s)))
  ELSE s

RECURSIVE trimEnd(_)
trimEnd(s) ==
  IF Len(s) > 0 /\ IsSpace(Char(s, Len(s))) THEN trimEnd(SubSeq(s, 1, Len(s) - 1))
  ELSE s

trim(s) == trimEnd(trimStart(s))

\* elements joined with sep; undefined elements give the empty string
RECURSIVE join(_, _)
join(a, sep) ==
  LET el(v) == IF v.k \in {"undefined", "null"} THEN "" ELSE ToStr(v) IN
  IF Len(a) = 0 THEN ""
  ELSE IF Len(a) = 1 THEN el(a[1])
  ELSE el(a[1]) \o sep \o join(Tail(a), sep)

-----------------------------------------------------------------------------
(* Dates *)

NaN == -1   \* the time value of an Invalid Date

\* new Date(v) for a cell value: its time value
NewDate(v) == IF v.k = "date" THEN v.t ELSE NaN

\* setHours(0, 0, 0, 0): back to the midnight that starts the day
setHoursMidnight(t) == IF t = NaN THEN NaN ELSE t - (t % TicksPerDay)

\* a > b and a < b on Dates: false when either side is NaN
DateGT(a, b) == a # NaN /\ b # NaN /\ a > b
DateLT(a, b) == a # NaN /\ b # NaN /\ a < b

\* isRecordValid without the midnight normalisation of today
isRecordValidRawToday(validFrom, validTill, clock) ==
  LET today == clock IN
  IF Truthy(validFrom) /\ DateGT(setHoursMidnight(NewDate(validFrom)), today)
  THEN FALSE
  ELSE IF Truthy(validTill) /\ DateLT(setHoursMidnight(NewDate(validTill)), today)
  THEN FALSE
  ELSE TRUE

\* clock is what new Date() returns inside the call
isRecordValid(validFrom, validTill, clock) ==
  LET today == setHoursMidnight(clock) IN
  IF Truthy(validFrom) /\ DateGT(setHoursMidnight(NewDate(validFrom)), today)
  THEN FALSE
  ELSE IF Truthy(validTill) /\ DateLT(setHoursMidnight(NewDate(validTill)), today)
  THEN FALSE
  ELSE TRUE

-----------------------------------------------------------------------------
(* The sheets *)

CONFIG_MASTER_SHEET_NAME == "MASTER"
CONFIG_OUTPUT_SHEET_NAME == "NewPortalRequests"
RECAPTCHA_THRESHOLD == 5   \* 0.5, in tenths

\* a sheet the script looks up by name: status "ok" or "missing" (and
\* "unavailable" for the MASTER sheet)
Sheet(data) == [status |-> "ok", data |-> data]
NoSheet == [status |-> "missing", data |-> <<>>]

\* a spreadsheet opened by id: status "ok" or "unreachable"
Unreachable == [status |-> "unreachable", data |-> <<>>]

\* the spreadsheet service throws while the MASTER sheet is looked up or read
MasterUnavailable == [status |-> "unavailable", data |-> <<>>]
ServiceError == "Service Spreadsheets failed while accessing document 1AbC"

HeaderRow == <<Str("Group"), Str("Record_Type"), Str("Record_Name"),
               Str("Valid_From"), Str("Valid_Till"), Str("Content")>>

\* one event of a call's trace
Ev(op, arg) == [op |-> op, arg |-> arg]

\* row[key] on a row object: undefined when the key is not a header
Get(row, key) == IF key \in DOMAIN row THEN row[key] ELSE Undefined

\* the row object after the inner loop has assigned columns j..Len(headers):
\* row[headers[j]] = cells[j], a later column of the same header overwriting
\* an earlier one
RECURSIVE RowObjectFrom(_, _, _)
RowObjectFrom(headers, cells, j) ==
  IF j > Len(headers) THEN [h \in {} |-> Undefined]
  ELSE RowObjectFrom(headers, cells, j + 1)
       @@ (ToStr(headers[j]) :> (IF j <= Len(cells) THEN cells[j] ELSE Undefined))

RowObject(headers, cells) == RowObjectFrom(headers, cells, 1)

\* ok = FALSE stands for the exception the function rethrows
getMasterSheetData ==
  IF masterSheet.status = "unavailable"
  THEN [ok |-> FALSE, error |-> ServiceError, rows |-> <<>>]
  ELSE IF masterSheet.status # "ok"
  THEN [ok |-> FALSE,
        error |-> "Master sheet '" \o CONFIG_MASTER_SHEET_NAME \o "' not found",
        rows |-> <<>>]
  ELSE LET data == masterSheet.data
           headers == data[1]
       IN [ok |-> TRUE, error |-> "",
           rows |-> [i \in 1..(Len(data) - 1) |-> RowObject(headers, data[i + 1])]]

\* The k-th reading of the clock inside a call that began at `now`: the
\* clock moves on by one tick after the tickAt-th reading.
ClockAt(k, tickAt) == IF k <= tickAt THEN now ELSE now + 1

-----------------------------------------------------------------------------
(* extractSheetId and checkEmailInSheet *)

IdAlphabet == "abcdefghijklmnopqrstuvwxyzABCDEFGHIJKLMNOPQRSTUVWXYZ0123456789-_"
IdChars == {Char(IdAlphabet, i) : i \in 1..Len(IdAlphabet)}
SheetPattern == "/spreadsheets/d/"

\* the longest run of id characters of s that starts at position p
RECURSIVE IdRun(_, _)
IdRun(s, p) ==
  IF p <= Len(s) /\ Char(s, p) \in IdChars THEN Char(s, p) \o IdRun(s, p + 1)
  ELSE ""

\* extractSheetId that takes everything after /spreadsheets/d/ as the id
extractSheetIdTail(url) ==
  IF ~Truthy(url) THEN Null
  ELSE IF url.k # "string" THEN Null
  ELSE LET s == url.s
           n == Len(SheetPattern)
           hits == {p \in 1..Len(s) :
                      /\ p + n - 1 <= Len(s)
                      /\ SubSeq(s, p, p + n - 1) = SheetPattern}
       IN IF hits = {} THEN Null
          ELSE LET p == CHOOSE q \in hits : \A r \in hits : q <= r
               IN Str(SubSeq(s, p + n, Len(s)))

\* url.match(/\/spreadsheets\/d\/([a-zA-Z0-9-_]+)/): leftmost match, group 1
extractSheetId(url) ==
  IF ~Truthy(url) THEN Null
  ELSE IF url.k # "string" THEN Null     \* url.match is not a function: caught
  ELSE LET s == url.s
           n == Len(SheetPattern)
           hits == {p \in 1..Len(s) :
                      /\ p + n <= Len(s)
                      /\ Char(s, p) = Char(SheetPattern, 1)
                      /\ SubSeq(s, p, p + n - 1) = SheetPattern
                      /\ Char(s, p + n) \in IdChars}
       IN IF hits = {} THEN Null
          ELSE LET p == CHOOSE q \in hits : \A r \in hits : q <= r
               IN Str(IdRun(s, p + n))

\* the scan of column A from data[i] on (i is the JavaScript index)
RECURSIVE ScanColumnA(_, _, _)
ScanColumnA(data, i, emailLower) ==
  IF i >= Len(data) THEN FALSE
  ELSE IF trim(toLowerCase(ToStr(data[i + 1][1]))) = emailLower THEN TRUE
  ELSE ScanColumnA(data, i + 1, emailLower)

\* checkEmailInSheet that answers true when the list cannot be read
checkEmailInSheetFailOpen(sheetId, email) ==
  IF sheetId \notin DOMAIN regSheets THEN TRUE
  ELSE IF regSheets[sheetId].status # "ok" THEN TRUE
  ELSE IF email.k # "string" THEN FALSE
  ELSE ScanColumnA(regSheets[sheetId].data, 1, trim(toLowerCase(email.s)))

\* checkEmailInSheet that starts its scan at the header row
checkEmailInSheetFromHeader(sheetId, email) ==
  IF sheetId \notin DOMAIN regSheets THEN FALSE
  ELSE IF regSheets[sheetId].status # "ok" THEN FALSE
  ELSE IF email.k # "string" THEN FALSE
  ELSE ScanColumnA(regSheets[sheetId].data, 0, trim(toLowerCase(email.s)))

checkEmailInSheet(sheetId, email) ==
  IF sheetId \notin DOMAIN regSheets THEN FALSE          \* openById throws: caught
  ELSE IF regSheets[sheetId].status # "ok" THEN FALSE    \* openById throws: caught
  ELSE IF email.k # "string" THEN FALSE                  \* email.toLowerCase throws: caught
  ELSE ScanColumnA(regSheets[sheetId].data, 1, trim(toLowerCase(email.s)))

-----------------------------------------------------------------------------
(* Webapp.gs: the action handlers.  A handler yields the response object,  *)
(* the trace of what it did and the output sheet it leaves behind.         *)

\* jsonError that leaves out the success field
jsonErrorBare(message) == [message |-> message]

jsonError(message) == [success |-> FALSE, message |-> message]

Result(resp, tr, out) == [response |-> resp, trace |-> tr, output |-> out]

\* programs after forEach has visited rows i..Len(rows)
RECURSIVE PushPrograms(_, _, _)
PushPrograms(rows, i, tickAt) ==
  IF i > Len(rows) THEN <<>>
  ELSE (IF /\ Get(rows[i], "Record_Type") = Str("PROGRAM")
           /\ isRecordValid(Get(rows[i], "Valid_From"), Get(rows[i], "Valid_Till"),
                            ClockAt(i, tickAt))
        THEN <<Get(rows[i], "Record_Name")>> ELSE <<>>)
       \o PushPrograms(rows, i + 1, tickAt)

\* handleGetPrograms that answers with the programs of the last response it
\* has on record instead of reading the MASTER sheet
handleGetProgramsCached(tickAt) ==
  IF "programs" \in DOMAIN response
  THEN Result(response, <<Ev("getMasterSheetData", "")>>, outputSheet)
  ELSE LET md == getMasterSheetData
           tr == <<Ev("getMasterSheetData", "")>>
       IN IF ~md.ok
          THEN Result(jsonError("Error loading programs: " \o md.error), tr, outputSheet)
          ELSE Result([success |-> TRUE, programs |-> PushPrograms(md.rows, 1, tickAt)],
                      tr, outputSheet)

handleGetPrograms(tickAt) ==
  LET md == getMasterSheetData
      tr == <<Ev("getMasterSheetData", "")>>
  IN IF ~md.ok
     THEN Result(jsonError("Error loading programs: " \o md.error), tr, outputSheet)
     ELSE Result([success |-> TRUE, programs |-> PushPrograms(md.rows, 1, tickAt)],
                 tr, outputSheet)

\* requests after forEach has visited rows i..Len(rows)
RECURSIVE PushRequests(_, _, _, _)
PushRequests(rows, program, i, tickAt) ==
  IF i > Len(rows) THEN <<>>
  ELSE (IF /\ Get(rows[i], "Group") = program
           /\ Get(rows[i], "Record_Type") = Str("REQUEST")
           /\ isRecordValid(Get(rows[i], "Valid_From"), Get(rows[i], "Valid_Till"),
                            ClockAt(i, tickAt))
        THEN <<Get(rows[i], "Record_Name")>> ELSE <<>>)
       \o PushRequests(rows, program, i + 1, tickAt)

\* handleGetRequests that reads the MASTER sheet before it tests program
handleGetRequestsReadFirst(program, tickAt) ==
  LET md == getMasterSheetData
      tr == <<Ev("getMasterSheetData", "")>>
  IN IF ~md.ok
     THEN Result(jsonError("Error loading requests: " \o md.error), tr, outputSheet)
     ELSE IF ~Truthy(program)
     THEN Result(jsonError("Program is required"), tr, outputSheet)
     ELSE Result([success |-> TRUE,
                  requests |-> PushRequests(md.rows, program, 1, tickAt)],
                 tr, outputSheet)

handleGetRequests(program, tickAt) ==
  IF ~Truthy(program)
  THEN Result(jsonError("Program is required"), <<>>, outputSheet)
  ELSE LET md == getMasterSheetData
           tr == <<Ev("getMasterSheetData", "")>>
       IN IF ~md.ok
          THEN Result(jsonError("Error loading requests: " \o md.error), tr, outputSheet)
          ELSE Result([success |-> TRUE,
                       requests |-> PushRequests(md.rows, program, 1, tickAt)],
                      tr, outputSheet)

\* The forEach of verifyEmail over rows i..Len(rows) for one Record_Type:
\* the index of the row the loop variable ends up holding (cur = 0: none).
\* base is the number of clock readings made before this loop.
RECURSIVE LastValid(_, _, _, _, _, _, _)
LastValid(rows, program, type, i, cur, base, tickAt) ==
  IF i > Len(rows) THEN cur
  ELSE LastValid(rows, program, type, i + 1,
         IF /\ Get(rows[i], "Group") = program
            /\ Get(rows[i], "Record_Type") = Str(type)
            /\ isRecordValid(Get(rows[i], "Valid_From"), Get(rows[i], "Valid_Till"),
                             ClockAt(base + i, tickAt))
         THEN i ELSE cur,
         base, tickAt)

\* LastValid that keeps the first matching row instead of the last
RECURSIVE FirstValid(_, _, _, _, _, _, _)
FirstValid(rows, program, type, i, cur, base, tickAt) ==
  IF i > Len(rows) THEN cur
  ELSE FirstValid(rows, program, type, i + 1,
         IF /\ cur = 0
            /\ Get(rows[i], "Group") = program
            /\ Get(rows[i], "Record_Type") = Str(type)
            /\ isRecordValid(Get(rows[i], "Valid_From"), Get(rows[i], "Valid_Till"),
                             ClockAt(base + i, tickAt))
         THEN i ELSE cur,
         base, tickAt)

\* regFormUrl || null
OrNull(v) == IF Truthy(v) THEN v ELSE Null

\* VerifyEmailBody that does not test the Content of the REGISTER row
VerifyEmailBodyAnyContent(program, email, tickAt, webapp) ==
  IF ~Truthy(program) \/ ~Truthy(email)
  THEN Result(jsonError("Program and email are required"), <<>>, outputSheet)
  ELSE LET md == getMasterSheetData
           tr == <<Ev("getMasterSheetData", "")>>
       IN IF ~md.ok
          THEN Result(jsonError("Error verifying email"
                                \o (IF webapp THEN ": " \o md.error ELSE "")),
                      tr, outputSheet)
          ELSE
          LET rows == md.rows
              reg == LastValid(rows, program, "REGISTER", 1, 0, 0, tickAt)
          IN IF reg = 0
             THEN Result(jsonError("Registration sheet not found for this program"),
                         tr, outputSheet)
             ELSE
             LET sheetId == extractSheetId(Get(rows[reg], "Content")) IN
             IF ~Truthy(sheetId)
             THEN Result(jsonError("Invalid registration sheet URL"), tr, outputSheet)
             ELSE
             LET tr2 == Append(tr, Ev("openById", sheetId.s)) IN
             IF checkEmailInSheet(sheetId.s, email)
             THEN Result([success |-> TRUE, registered |-> TRUE], tr2, outputSheet)
             ELSE
             LET form == LastValid(rows, program, "REGFORM", 1, 0, Len(rows), tickAt)
                 regFormUrl == IF form = 0 THEN Null ELSE Get(rows[form], "Content")
             IN Result([success |-> TRUE, registered |-> FALSE,
                        registrationUrl |->
                          IF webapp THEN OrNull(regFormUrl) ELSE regFormUrl],
                       tr2, outputSheet)

\* The body shared by handleVerifyEmail (webapp = TRUE) and verifyEmail of
\* Code.gs (webapp = FALSE).  They differ in the message of the catch block
\* and in registrationUrl, which only Webapp.gs passes through `|| null`.
VerifyEmailBody(program, email, tickAt, webapp) ==
  IF ~Truthy(program) \/ ~Truthy(email)
  THEN Result(jsonError("Program and email are required"), <<>>, outputSheet)
  ELSE LET md == getMasterSheetData
           tr == <<Ev("getMasterSheetData", "")>>
       IN IF ~md.ok
          THEN Result(jsonError("Error verifying email"
                                \o (IF webapp THEN ": " \o md.error ELSE "")),
                      tr, outputSheet)
          ELSE
          LET rows == md.rows
              reg == LastValid(rows, program, "REGISTER", 1, 0, 0, tickAt)
          IN IF reg = 0 \/ ~Truthy(Get(rows[reg], "Content"))
             THEN Result(jsonError("Registration sheet not found for this program"),
                         tr, outputSheet)
             ELSE
             LET sheetId == extractSheetId(Get(rows[reg], "Content")) IN
             IF ~Truthy(sheetId)
             THEN Result(jsonError("Invalid registration sheet URL"), tr, outputSheet)
             ELSE
             LET tr2 == Append(tr, Ev("openById", sheetId.s)) IN
             IF checkEmailInSheet(sheetId.s, email)
             THEN Result([success |-> TRUE, registered |-> TRUE], tr2, outputSheet)
             ELSE
             LET form == LastValid(rows, program, "REGFORM", 1, 0, Len(rows), tickAt)
                 regFormUrl == IF form = 0 THEN Null ELSE Get(rows[form], "Content")
             IN Result([success |-> TRUE, registered |-> FALSE,
                        registrationUrl |->
                          IF webapp THEN OrNull(regFormUrl) ELSE regFormUrl],
                       tr2, outputSheet)

handleVerifyEmail(program, email, tickAt) ==
  VerifyEmailBody(program, email, tickAt, TRUE)

-----------------------------------------------------------------------------
(* reCAPTCHA and submitRequest *)

\* What the siteverify round trip does in one call: UrlFetchApp.fetch throws,
\* the body is not JSON, or the body is JSON with these fields.
CaptchaThrows == [kind |-> "throws", success |-> FALSE, hasScore |-> FALSE, score |-> 0]
CaptchaGarbage == [kind |-> "unparsable", success |-> FALSE, hasScore |-> FALSE, score |-> 0]
CaptchaJson(success, hasScore, score) ==
  [kind |-> "json", success |-> success, hasScore |-> hasScore, score |-> score]

\* result.score >= CONFIG.RECAPTCHA_THRESHOLD; undefined >= 0.5 is false
ScorePasses(captcha) ==
  captcha.hasScore /\ captcha.score >= RECAPTCHA_THRESHOLD

\* verifyRecaptcha that lets the call through when the round trip throws
verifyRecaptchaFailOpen(token, captcha) ==
  IF ~Truthy(token) THEN [ok |-> FALSE, trace |-> <<Ev("verifyRecaptcha", "")>>]
  ELSE IF ~Truthy(secret)
  THEN [ok |-> FALSE, trace |-> <<Ev("verifyRecaptcha", "")>>]
  ELSE [ok |-> IF captcha.kind = "json"
               THEN captcha.success /\ ScorePasses(captcha)
               ELSE TRUE,
        trace |-> <<Ev("verifyRecaptcha", ""), Ev("fetch", "siteverify")>>]

verifyRecaptcha(token, captcha) ==
  IF ~Truthy(token) THEN [ok |-> FALSE, trace |-> <<Ev("verifyRecaptcha", "")>>]
  ELSE IF ~Truthy(secret)
  THEN [ok |-> FALSE, trace |-> <<Ev("verifyRecaptcha", "")>>]
  ELSE [ok |-> IF captcha.kind = "json"
               THEN captcha.success /\ ScorePasses(captcha)
               ELSE FALSE,                      \* fetch or JSON.parse threw: caught
        trace |-> <<Ev("verifyRecaptcha", ""), Ev("fetch", "siteverify")>>]

\* the row with program and email in each other's column
OutputRowSwapped(timestamp, program, email, requests) ==
  <<DateOf(timestamp), email, program, Str(join(requests.a, ", "))>>

\* [timestamp, program, email, requestsText]
OutputRow(timestamp, program, email, requests) ==
  <<DateOf(timestamp), program, email, Str(join(requests.a, ", "))>>

\* if (!program || !email || !requests || requests.length === 0)
FieldsMissing(program, email, requests) ==
  \/ ~Truthy(program)
  \/ ~Truthy(email)
  \/ ~Truthy(requests)
  \/ Len(requests.a) = 0

\* handleSubmitRequest with the reCAPTCHA check made before the validation
handleSubmitRequestCaptchaFirst(program, email, requests, recaptchaToken, env) ==
  LET rc == verifyRecaptcha(recaptchaToken, env.captcha)
      tr2 == Append(rc.trace, Ev("validate", ""))
  IN IF ~rc.ok
     THEN Result(jsonError("Security verification failed. Please try again."),
                 rc.trace, outputSheet)
     ELSE IF FieldsMissing(program, email, requests)
     THEN Result(jsonError("All fields are required"), tr2, outputSheet)
     ELSE
     LET tr3 == Append(tr2, Ev("getSheetByName", CONFIG_OUTPUT_SHEET_NAME)) IN
     IF outputSheet.status # "ok"
     THEN Result(jsonError("Output sheet not found"), tr3, outputSheet)
     ELSE
     LET timestamp == ClockAt(1, env.tickAt)
         tr4 == Append(tr3, Ev("appendRow", ""))
     IN IF env.appendFails
        THEN Result(jsonError("Error submitting request: " \o "Service error"),
                    tr4, outputSheet)
        ELSE Result([success |-> TRUE, message |-> "Request submitted successfully"],
                    tr4,
                    Sheet(Append(outputSheet.data,
                                 OutputRow(timestamp, program, email, requests))))

\* handleSubmitRequest that puts the new row above the rows the sheet holds
handleSubmitRequestOnTop(program, email, requests, recaptchaToken, env) ==
  LET tr1 == <<Ev("validate", "")>> IN
  IF FieldsMissing(program, email, requests)
  THEN Result(jsonError("All fields are required"), tr1, outputSheet)
  ELSE
  LET rc == verifyRecaptcha(recaptchaToken, env.captcha)
      tr2 == tr1 \o rc.trace
  IN IF ~rc.ok
     THEN Result(jsonError("Security verification failed. Please try again."),
                 tr2, outputSheet)
     ELSE
     LET tr3 == Append(tr2, Ev("getSheetByName", CONFIG_OUTPUT_SHEET_NAME)) IN
     IF outputSheet.status # "ok"
     THEN Result(jsonError("Output sheet not found"), tr3, outputSheet)
     ELSE
     LET timestamp == ClockAt(1, env.tickAt)
         tr4 == Append(tr3, Ev("appendRow", ""))
     IN IF env.appendFails
        THEN Result(jsonError("Error submitting request: " \o "Service error"),
                    tr4, outputSheet)
        ELSE Result([success |-> TRUE, message |-> "Request submitted successfully"],
                    tr4,
                    Sheet(<<OutputRow(timestamp, program, email, requests)>>
                          \o outputSheet.data))

\* env.tickAt: when the clock moves during the call; env.captcha: the
\* siteverify round trip; env.appendFails: appendRow throws
handleSubmitRequest(program, email, requests, recaptchaToken, env) ==
  LET tr1 == <<Ev("validate", "")>> IN
  IF FieldsMissing(program, email, requests)
  THEN Result(jsonError("All fields are required"), tr1, outputSheet)
  ELSE
  LET rc == verifyRecaptcha(recaptchaToken, env.captcha)
      tr2 == tr1 \o rc.trace
  IN IF ~rc.ok
     THEN Result(jsonError("Security verification failed. Please try again."),
                 tr2, outputSheet)
     ELSE
     LET tr3 == Append(tr2, Ev("getSheetByName", CONFIG_OUTPUT_SHEET_NAME)) IN
     IF outputSheet.status # "ok"
     THEN Result(jsonError("Output sheet not found"), tr3, outputSheet)
     ELSE
     LET timestamp == ClockAt(1, env.tickAt)
         tr4 == Append(tr3, Ev("appendRow", ""))
     IN IF env.appendFails
        THEN Result(jsonError("Error submitting request: " \o "Service error"),
                    tr4, outputSheet)
        ELSE Result([success |-> TRUE, message |-> "Request submitted successfully"],
                    tr4,
                    Sheet(Append(outputSheet.data,
                                 OutputRow(timestamp, program, email, requests))))

-----------------------------------------------------------------------------
(* Code.gs (src/unnamed/part_000): the same queries, returning plain       *)
(* objects to its own doPost                                               *)

getPrograms(tickAt) ==
  LET md == getMasterSheetData
      tr == <<Ev("getMasterSheetData", "")>>
  IN IF ~md.ok
     THEN Result(jsonError("Error loading programs"), tr, outputSheet)
     ELSE Result([success |-> TRUE, programs |-> PushPrograms(md.rows, 1, tickAt)],
                 tr, outputSheet)

verifyEmail(program, email, tickAt) ==
  VerifyEmailBody(program, email, tickAt, FALSE)

getRequests(program, tickAt) ==
  IF ~Truthy(program)
  THEN Result(jsonError("Program is required"), <<>>, outputSheet)
  ELSE LET md == getMasterSheetData
           tr == <<Ev("getMasterSheetData", "")>>
       IN IF ~md.ok
          THEN Result(jsonError("Error loading requests"), tr, outputSheet)
          ELSE Result([success |-> TRUE,
                       requests |-> PushRequests(md.rows, program, 1, tickAt)],
                      tr, outputSheet)

submitRequest(program, email, requests, recaptchaToken, env) ==
  LET tr1 == <<Ev("validate", "")>> IN
  IF FieldsMissing(program, email, requests)
  THEN Result(jsonError("All fields are required"), tr1, outputSheet)
  ELSE
  LET rc == verifyRecaptcha(recaptchaToken, env.captcha)
      tr2 == tr1 \o rc.trace
  IN IF ~rc.ok
     THEN Result(jsonError("Security verification failed. Please try again."),
                 tr2, outputSheet)
     ELSE
     LET tr3 == Append(tr2, Ev("getSheetByName", CONFIG_OUTPUT_SHEET_NAME)) IN
     IF outputSheet.status # "ok"                 \* throws: caught below
     THEN Result(jsonError("Error submitting request"), tr3, outputSheet)
     ELSE
     LET timestamp == ClockAt(1, env.tickAt)
         tr4 == Append(tr3, Ev("appendRow", ""))
     IN IF env.appendFails
        THEN Result(jsonError("Error submitting request"), tr4, outputSheet)
        ELSE Result([success |-> TRUE, message |-> "Request submitted successfully"],
                    tr4,
                    Sheet(Append(outputSheet.data,
                                 OutputRow(timestamp, program, email, requests))))

-----------------------------------------------------------------------------
(* doPost *)

\* e.parameter: a parameter that was not sent is undefined
Req(action, honey, program, email, requests, recaptchaToken) ==
  [action |-> action, honey |-> honey, program |-> program, email |-> email,
   requests |-> requests, recaptchaToken |-> recaptchaToken]

\* v.length
Length(v) ==
  CASE v.k = "string" -> Len(v.s)
    [] v.k = "array" -> Len(v.a)
    [] OTHER -> 0

\* the honeypot looked at for submissions only
HoneypotOnSubmitOnly(e) ==
  e.action = Str("submitRequest") /\ Truthy(e.honey) /\ Length(e.honey) > 0

\* e.parameter.honey && e.parameter.honey.length > 0
HoneypotFilled(e) == Truthy(e.honey) /\ Length(e.honey) > 0

\* Webapp.gs: Array.isArray(requests) ? requests : (requests ? [requests] : [])
RequestsArray(requests) ==
  IF requests.k = "array" THEN requests
  ELSE IF Truthy(requests) THEN Arr(<<requests>>) ELSE Arr(<<>>)

\* Code.gs: Array.isArray(requests) ? requests : [requests]
RequestsArray_part_000(requests) ==
  IF requests.k = "array" THEN requests ELSE Arr(<<requests>>)

\* what doPost of Webapp.gs yields for e
DoPostWebapp(e, env) ==
  IF HoneypotFilled(e)
  THEN Result(jsonError("Submission blocked"), <<>>, outputSheet)
  ELSE IF ~Truthy(e.action)
  THEN Result(jsonError("Missing action parameter"), <<>>, outputSheet)
  ELSE CASE e.action = Str("getPrograms") -> handleGetPrograms(env.tickAt)
         [] e.action = Str("verifyEmail") ->
              handleVerifyEmail(e.program, e.email, env.tickAt)
         [] e.action = Str("getRequests") -> handleGetRequests(e.program, env.tickAt)
         [] e.action = Str("submitRequest") ->
              handleSubmitRequest(e.program, e.email, RequestsArray(e.requests),
                                  e.recaptchaToken, env)
         [] OTHER ->
              Result(jsonError("Unknown action: " \o ToStr(e.action)), <<>>, outputSheet)

\* what doPost of Code.gs yields for e
DoPostCode(e, env) ==
  IF HoneypotFilled(e)
  THEN Result(jsonError("Submission blocked"), <<>>, outputSheet)
  ELSE CASE e.action = Str("getPrograms") -> getPrograms(env.tickAt)
         [] e.action = Str("verifyEmail") -> verifyEmail(e.program, e.email, env.tickAt)
         [] e.action = Str("getRequests") -> getRequests(e.program, env.tickAt)
         [] e.action = Str("submitRequest") ->
              submitRequest(e.program, e.email, RequestsArray_part_000(e.requests),
                            e.recaptchaToken, env)
         [] OTHER -> Result(jsonError("Invalid action specified"), <<>>, outputSheet)

\* what the deployed doPost yields for e
Deployed(e, env) ==
  IF backend = "Webapp.gs" THEN DoPostWebapp(e, env) ELSE DoPostCode(e, env)

HasEvent(tr, op) == \E i \in 1..Len(tr) : tr[i].op = op

\* the rows of the MASTER sheet below the header
MasterLen == IF masterSheet.status = "ok" THEN Len(masterSheet.data) - 1 ELSE 0

\* the clock readings the call for e can make: one per row and loop, or the
\* timestamp
ClockReads(e) ==
  CASE e.action = Str("getPrograms") -> MasterLen
    [] e.action = Str("getRequests") -> MasterLen
    [] e.action = Str("verifyEmail") -> 2 * MasterLen
    [] e.action = Str("submitRequest") -> 1
    [] OTHER -> 0

\* tickAt = NoTick(e): the clock does not move during the call
NoTick(e) == ClockReads(e) + 1

CaptchaPass == CaptchaJson(TRUE, TRUE, MaxScore)

CaptchaOutcomes ==
  {CaptchaThrows, CaptchaGarbage,
   CaptchaJson(FALSE, FALSE, 0), CaptchaJson(FALSE, TRUE, MaxScore),
   CaptchaJson(TRUE, FALSE, 0), CaptchaJson(TRUE, TRUE, 0),
   CaptchaJson(TRUE, TRUE, RECAPTCHA_THRESHOLD - 1),
   CaptchaJson(TRUE, TRUE, RECAPTCHA_THRESHOLD),
   CaptchaJson(TRUE, TRUE, MaxScore)}

\* what the call for e does when siteverify answers c and nothing else fails
Probe(e, c) ==
  Deployed(e, [tickAt |-> NoTick(e), captcha |-> c, appendFails |-> FALSE]).trace

\* The environments of one call: what siteverify answers if the call gets as
\* far as asking it, whether appendRow throws if the call gets as far as
\* appending, and when the clock moves if the call reads it.
EnvsFor(e) ==
  LET submit == e.action = Str("submitRequest")
      captchas == IF submit /\ HasEvent(Probe(e, CaptchaPass), "fetch")
                  THEN CaptchaOutcomes ELSE {CaptchaThrows}
  IN UNION {
       LET appends == submit /\ HasEvent(Probe(e, c), "appendRow")
           reads == ClockReads(e) > 0 /\ (submit => appends)
       IN [tickAt : IF now < MaxNow /\ reads THEN 0..NoTick(e) ELSE {NoTick(e)},
           captcha : {c},
           appendFails : IF appends THEN BOOLEAN ELSE {FALSE}]
       : c \in captchas}

\* the output sheet has room for one more row
HasRoom(e) ==
  e.action = Str("submitRequest") => Len(outputSheet.data) < MaxOutput

Serve(e, env, r) ==
  /\ request' = e
  /\ response' = r.response
  /\ trace' = r.trace
  /\ outputSheet' = r.output
  /\ entry' = [now |-> now, output |-> outputSheet, env |-> env]
  /\ now' = IF env.tickAt < NoTick(e) THEN now + 1 ELSE now
  /\ UNCHANGED <<backend, masterSheet, regSheets, secret, fnArgs, fnResult>>
  /\ UNCHANGED <<running, page>>

doPost(e, env) ==
  /\ backend = "Webapp.gs"
  /\ HasRoom(e)
  /\ Serve(e, env, DoPostWebapp(e, env))

doPost_part_000(e, env) ==
  /\ backend = "Code.gs"
  /\ HasRoom(e)
  /\ Serve(e, env, DoPostCode(e, env))

\* time passes between calls
Tick ==
  /\ now < MaxNow
  /\ now' = now + 1
  /\ UNCHANGED <<backend, masterSheet, regSheets, outputSheet, secret,
                 request, response, trace, entry, fnArgs, fnResult>>
  /\ UNCHANGED <<running, page>>

-----------------------------------------------------------------------------
(* The portal: every action of doPost against one small workbook *)

NoCall == [k |-> "none"]
\* no doPost executions overlap; no page is open
NotRunning == [k |-> "none"]
NoPage == [k |-> "none"]

NoEnv == [tickAt |-> 1, captcha |-> CaptchaThrows, appendFails |-> FALSE]
Called == "success" \in DOMAIN response

MorningOf(d) == d * TicksPerDay
EveningOf(d) == d * TicksPerDay + TicksPerDay - 1

MasterRow(group, type, name, from, till, content) ==
  <<Str(group), Str(type), Str(name), from, till, Str(content)>>

Url1 == "https://g.co/spreadsheets/d/abc-1_2/edit"
Url2 == "https://g.co/spreadsheets/d/XyZ9"
BadUrl == "https://g.co/spreadsheets/d/"
FormUrl == "https://g.co/form"

RegList1 == Sheet(<<<<Str("Email")>>, <<Str("x@y.com")>>>>)
RegList2 == Sheet(<<<<Str("Email")>>, <<Str("z@y.com")>>>>)

PortalMaster ==
  Sheet(<<HeaderRow,
          MasterRow("P1", "PROGRAM", "P1", Blank, Blank, ""),
          MasterRow("P1", "REGISTER", "Registered Users", Blank, Blank, Url1),
          MasterRow("P1", "REQUEST", "A", Blank, Blank, "")>>)

\* the portal is watched from the last evening but one on; the output sheet
\* already holds a row of an earlier day
PriorRow == <<DateOf(0), Str("P0"), Str("old@y.com"), Str("Z")>>

Honeys == {Undefined, Str("bot")}
RequestParams == {Undefined, Str(""), Str("A"), Arr(<<>>), Arr(<<Str("A"), Str("B")>>)}
Tokens == {Undefined, Str("tok")}

\* submitRequest calls: every shape of requests and token with program and
\* email present, and every way program or email can be missing
SubmitRequests ==
  {Req(Str("submitRequest"), h, Str("P1"), Str("x@y.com"), r, t) :
     h \in Honeys, r \in RequestParams, t \in Tokens}
  \cup {Req(Str("submitRequest"), h, pm[1], pm[2], Arr(<<Str("A"), Str("B")>>), Str("tok")) :
          h \in Honeys,
          pm \in {<<Undefined, Str("x@y.com")>>, <<Str(""), Str("x@y.com")>>,
                  <<Str("P1"), Undefined>>, <<Str("P1"), Str("")>>}}

PortalRequests ==
  {Req(a, h, Undefined, Undefined, Undefined, Undefined) :
     a \in {Undefined, Str("bogus"), Str("getPrograms")}, h \in Honeys \cup {Str("")}}
  \cup {Req(Str("verifyEmail"), h, Str("P1"), m, Undefined, Undefined) :
          h \in Honeys, m \in {Str("x@y.com"), Str("q@y.com")}}
  \cup {Req(Str("getRequests"), h, Str("P1"), Undefined, Undefined, Undefined) :
          h \in Honeys}
  \cup SubmitRequests

Init ==
  /\ backend \in {"Webapp.gs", "Code.gs"}
  /\ masterSheet = PortalMaster
  /\ regSheets = [id \in {"abc-1_2"} |-> RegList1]
  /\ outputSheet \in {NoSheet, Sheet(<<PriorRow>>)}
  /\ secret \in {Null, Str("6Lsecret")}
  /\ now = MaxNow - 1
  /\ request = NoCall
  /\ response = NoCall
  /\ trace = <<>>
  /\ entry = [now |-> now, output |-> outputSheet, env |-> NoEnv]
  /\ fnArgs = NoCall
  /\ fnResult = NoCall
  /\ running = NotRunning
  /\ page = NoPage

Next ==
  \/ \E e \in PortalRequests : \E env \in EnvsFor(e) : doPost(e, env)
  \/ \E e \in PortalRequests : \E env \in EnvsFor(e) : doPost_part_000(e, env)
  \/ Tick

Spec == Init /\ [][Next]_vars

-----------------------------------------------------------------------------
(* Properties of the portal *)

\* the last call carried a non-empty honeypot field
HoneyFilledIn(e) == e.honey.k = "string" /\ e.honey.s # ""

\* the last call was a submitRequest that got past the honeypot check
SubmitCall ==
  Called /\ request.action = Str("submitRequest") /\ ~HoneyFilledIn(request)

\* the position of the first event op in the trace, 0 if there is none
FirstEvent(op) ==
  IF HasEvent(trace, op)
  THEN CHOOSE i \in 1..Len(trace) :
         trace[i].op = op /\ \A j \in 1..(i - 1) : trace[j].op # op
  ELSE 0

\* C6: a call with a non-empty honeypot field gets the generic failure
\* response and has done nothing else: no master read, no registration list
\* opened, no siteverify call, no row appended.
HoneypotShortCircuits ==
  (Called /\ HoneyFilledIn(request)) =>
    /\ response = [success |-> FALSE, message |-> "Submission blocked"]
    /\ trace = <<>>
    /\ outputSheet = entry.output

\* a honeypot-filled submitRequest whose other fields are all in order
HoneypotSubmitBlocked ==
  /\ Called
  /\ request = Req(Str("submitRequest"), Str("bot"), Str("P1"), Str("x@y.com"),
                   Arr(<<Str("A"), Str("B")>>), Str("tok"))
  /\ Truthy(secret)
  /\ outputSheet.status = "ok"
  /\ ~response.success

\* the collaborator reported success and a score at or above the threshold
CaptchaPassed ==
  /\ HasEvent(trace, "fetch")
  /\ entry.env.captcha.kind = "json"
  /\ entry.env.captcha.success
  /\ entry.env.captcha.hasScore
  /\ entry.env.captcha.score >= RECAPTCHA_THRESHOLD

\* C7: submitRequest succeeds or appends a row only if the token and the
\* secret were present and siteverify reported success with a score at or
\* above the threshold; in every other case the call fails and the output
\* sheet is as it was.
AntiSpamFailsClosed ==
  SubmitCall =>
    /\ (response.success \/ outputSheet # entry.output) =>
         /\ Truthy(request.recaptchaToken)
         /\ Truthy(secret)
         /\ CaptchaPassed
    /\ ~(Truthy(request.recaptchaToken) /\ Truthy(secret) /\ CaptchaPassed) =>
         (~response.success /\ outputSheet = entry.output)

\* siteverify reported success with a score just below the threshold
LowScoreRejected ==
  /\ SubmitCall
  /\ HasEvent(trace, "fetch")
  /\ entry.env.captcha = CaptchaJson(TRUE, TRUE, RECAPTCHA_THRESHOLD - 1)
  /\ ~response.success
  /\ outputSheet = entry.output

\* C8 as stated: the anti-spam check is made before the validation of
\* program, email and requests.
CaptchaBeforeValidation ==
  (SubmitCall /\ HasEvent(trace, "validate")) =>
    (FirstEvent("verifyRecaptcha") # 0
     /\ FirstEvent("verifyRecaptcha") < FirstEvent("validate"))

\* C8 amended: the validation comes first; the anti-spam check is made only
\* after it, and the output sheet is looked up and appended to only after the
\* anti-spam check.
ValidationBeforeCaptcha ==
  SubmitCall =>
    /\ FirstEvent("validate") = 1
    /\ HasEvent(trace, "verifyRecaptcha") =>
         (FirstEvent("validate") < FirstEvent("verifyRecaptcha")
          /\ response # jsonError("All fields are required"))
    /\ \A op \in {"getSheetByName", "appendRow"} :
         HasEvent(trace, op) =>
           (FirstEvent("verifyRecaptcha") # 0
            /\ FirstEvent("verifyRecaptcha") < FirstEvent(op))

\* a call that was validated, then checked by siteverify, then appended
ValidatedThenChecked ==
  /\ SubmitCall
  /\ HasEvent(trace, "validate")
  /\ HasEvent(trace, "fetch")
  /\ HasEvent(trace, "appendRow")

\* the text the requests parameter of a call stands for
RequestsText(r) ==
  CASE r.k = "string" -> r.s
    [] r.k = "array" /\ Len(r.a) = 1 -> r.a[1].s
    [] r.k = "array" /\ Len(r.a) = 2 -> r.a[1].s \o ", " \o r.a[2].s
    [] OTHER -> ""

\* C9: a submitRequest that returns success has appended exactly one row,
\* (timestamp of the call, program, email, requests joined) of this call; one
\* that returns a failure has left the output sheet as it was.
SubmitAppendsOneRow ==
  (Called /\ request.action = Str("submitRequest")) =>
    IF response.success
    THEN /\ entry.output.status = "ok"
         /\ outputSheet.status = "ok"
         /\ \E ts \in entry.now..now :
              outputSheet.data =
                Append(entry.output.data,
                       <<DateOf(ts), request.program, request.email,
                         Str(RequestsText(request.requests))>>)
    ELSE outputSheet = entry.output

\* a successful submission of two requests
TwoRequestsSubmitted ==
  /\ SubmitCall
  /\ response.success
  /\ request.requests = Arr(<<Str("A"), Str("B")>>)
  /\ Len(outputSheet.data) = Len(entry.output.data) + 1

\* C10 as stated: a submitRequest with program, email or requests empty or
\* absent is rejected and appends no row.
MissingFieldsRejected ==
  (SubmitCall /\ (\/ request.program \in {Undefined, Str("")}
                  \/ request.email \in {Undefined, Str("")}
                  \/ request.requests \in {Undefined, Str(""), Arr(<<>>)})) =>
    (~response.success /\ outputSheet = entry.output)

-----------------------------------------------------------------------------
(* isRecordValid on its own: the inputs are drawn in the initial state and *)
(* testIsRecordValid applies the function to them                          *)

BoolResult(b) == [k |-> "bool", v |-> b]

DateCells == {Blank, Null} \cup {DateOf(t) : t \in Ticks}

InitValid ==
  /\ backend = "Webapp.gs"
  /\ masterSheet = NoSheet
  /\ regSheets = [id \in {"abc-1_2"} |-> Unreachable]
  /\ outputSheet = NoSheet
  /\ secret = Null
  /\ now \in Ticks
  /\ request = NoCall
  /\ response = NoCall
  /\ trace = <<>>
  /\ entry = [now |-> now, output |-> outputSheet, env |-> NoEnv]
  /\ fnArgs \in [fn : {"isRecordValid"}, validFrom : DateCells, validTill : DateCells]
  /\ fnResult = NoCall
  /\ running = NotRunning
  /\ page = NoPage

testIsRecordValid ==
  /\ fnArgs.fn = "isRecordValid"
  /\ fnResult = NoCall
  /\ fnResult' = BoolResult(isRecordValid(fnArgs.validFrom, fnArgs.validTill, now))
  /\ UNCHANGED <<backend, masterSheet, regSheets, outputSheet, secret, now,
                 request, response, trace, entry, fnArgs>>
  /\ UNCHANGED <<running, page>>

NextValid == testIsRecordValid

SpecValid == InitValid /\ [][NextValid]_vars

\* the day an instant falls on
DayOf(t) == t \div TicksPerDay

IsBlankCell(v) == v \in {Blank, Null, Undefined}

\* a cell that is blank or holds a date is valid on day d when ...
ValidOnDay(validFrom, validTill, d) ==
  /\ IsBlankCell(validFrom) \/ DayOf(validFrom.t) <= d
  /\ IsBlankCell(validTill) \/ DayOf(validTill.t) >= d

\* C1: isRecordValid is true exactly when (validFrom is blank or its day is
\* not after today) and (validTill is blank or its day is not before today);
\* the time of day of the bounds and of the clock does not matter.
IsRecordValidByDay ==
  (fnResult # NoCall /\ fnArgs.fn = "isRecordValid") =>
    fnResult.v = ValidOnDay(fnArgs.validFrom, fnArgs.validTill, DayOf(now))

\* a record that ends this morning, asked about this evening, is valid
ValidTillEarlierToday ==
  /\ fnResult # NoCall
  /\ fnArgs.fn = "isRecordValid"
  /\ fnArgs.validTill.k = "date"
  /\ fnArgs.validTill.t < now
  /\ DayOf(fnArgs.validTill.t) = DayOf(now)
  /\ fnResult.v

-----------------------------------------------------------------------------
(* checkEmailInSheet on its own *)

ListHeaders == {<<Str("Email"), Str("Name")>>, <<Str("a@b.com"), Str("Name")>>}

ListRows ==
  {<<Str(a), Str(b)>> : a \in {"a@b.com", " A@B.com ", "x@y.com", ""},
                        b \in {"Ann", "z@y.com"}}

\* the sheets with header h and at most n data rows taken from rows
RECURSIVE SheetsUpTo(_, _, _)
SheetsUpTo(h, rows, n) ==
  IF n = 0 THEN {<<h>>}
  ELSE LET shorter == SheetsUpTo(h, rows, n - 1)
       IN shorter \cup {Append(d, r) : d \in {x \in shorter : Len(x) = n}, r \in rows}

ListSheets ==
  {Unreachable} \cup {Sheet(d) : d \in UNION {SheetsUpTo(h, ListRows, MaxListRows) : h \in ListHeaders}}

EmailArgs == {Str("A@B.com "), Str("a@b.com"), Str("z@y.com"), Str("Email")}

InitEmail ==
  /\ backend = "Webapp.gs"
  /\ masterSheet = NoSheet
  /\ regSheets \in [{"abc-1_2"} -> ListSheets]
  /\ outputSheet = NoSheet
  /\ secret = Null
  /\ now = 0
  /\ request = NoCall
  /\ response = NoCall
  /\ trace = <<>>
  /\ entry = [now |-> now, output |-> outputSheet, env |-> NoEnv]
  /\ fnArgs \in [fn : {"checkEmailInSheet"}, sheetId : {"abc-1_2", "gone"},
                 email : EmailArgs]
  /\ fnResult = NoCall
  /\ running = NotRunning
  /\ page = NoPage

CallCheckEmailInSheet ==
  /\ fnArgs.fn = "checkEmailInSheet"
  /\ fnResult = NoCall
  /\ fnResult' = BoolResult(checkEmailInSheet(fnArgs.sheetId, fnArgs.email))
  /\ UNCHANGED <<backend, masterSheet, regSheets, outputSheet, secret, now,
                 request, response, trace, entry, fnArgs>>
  /\ UNCHANGED <<running, page>>

NextEmail == CallCheckEmailInSheet

SpecEmail == InitEmail /\ [][NextEmail]_vars

\* what an address of this model is once lower-cased and trimmed
Canonical(s) ==
  CASE s \in {"a@b.com", " A@B.com ", "A@B.com "} -> "a@b.com"
    [] s = "Email" -> "email"
    [] OTHER -> s

\* C5: for a reachable list the check is true exactly when some row below
\* the header has a first field equal to the email, both lower-cased and
\* trimmed; the header row and the other columns do not count.
EmailCheckScansColumnA ==
  (/\ fnResult # NoCall
   /\ fnArgs.fn = "checkEmailInSheet"
   /\ fnArgs.sheetId \in DOMAIN regSheets
   /\ regSheets[fnArgs.sheetId].status = "ok") =>
    LET data == regSheets[fnArgs.sheetId].data IN
    fnResult.v = (\E i \in 2..Len(data) :
                    Canonical(data[i][1].s) = Canonical(fnArgs.email.s))

\* "A@B.com " is found in a list that stores "a@b.com"
MixedCaseEmailFound ==
  /\ fnResult # NoCall
  /\ fnArgs.fn = "checkEmailInSheet"
  /\ fnArgs.email = Str("A@B.com ")
  /\ fnArgs.sheetId \in DOMAIN regSheets
  /\ regSheets[fnArgs.sheetId].status = "ok"
  /\ LET data == regSheets[fnArgs.sheetId].data IN
       /\ \E i \in 2..Len(data) : data[i][1] = Str("a@b.com")
       /\ \A i \in 2..Len(data) : data[i][1] # Str(" A@B.com ")
  /\ fnResult.v

-----------------------------------------------------------------------------
(* The catalogue queries against every small MASTER table, watched from    *)
(* the evening before the last day on                                      *)

LastEve == EveningOf(MaxDay - 1)

\* rows that are always valid, valid up to and including the day of LastEve,
\* and valid from the day after it on
Always(group, type, name, content) ==
  MasterRow(group, type, name, Blank, Blank, content)
Ending(group, type, name, content) ==
  MasterRow(group, type, name, Blank, DateOf(MorningOf(MaxDay - 1)), content)
Starting(group, type, name, content) ==
  MasterRow(group, type, name, DateOf(EveningOf(MaxDay)), Blank, content)

CatalogueRows ==
  {Always("P1", "PROGRAM", "P1", ""),
   Ending("P1", "PROGRAM", "P1", ""),
   Starting("P2", "PROGRAM", "P2", ""),
   Ending("P1", "REQUEST", "A", ""),
   Starting("P1", "REQUEST", "B", ""),
   Always("P2", "REQUEST", "A", "")}

CatalogueTables ==
  {NoSheet} \cup {Sheet(d) : d \in SheetsUpTo(HeaderRow, CatalogueRows, MaxRows)}

CatalogueRequests ==
  {Req(Str("getPrograms"), Undefined, Undefined, Undefined, Undefined, Undefined)}
  \cup {Req(Str("getRequests"), Undefined, p, Undefined, Undefined, Undefined) :
          p \in {Undefined, Str(""), Str("P1"), Str("P2")}}

InitCatalogue ==
  /\ backend \in {"Webapp.gs", "Code.gs"}
  /\ masterSheet \in CatalogueTables
  /\ regSheets = [id \in {"abc-1_2"} |-> RegList1]
  /\ outputSheet = NoSheet
  /\ secret = Null
  /\ now = LastEve
  /\ request = NoCall
  /\ response = NoCall
  /\ trace = <<>>
  /\ entry = [now |-> now, output |-> outputSheet, env |-> NoEnv]
  /\ fnArgs = NoCall
  /\ fnResult = NoCall
  /\ running = NotRunning
  /\ page = NoPage

NextCatalogue ==
  \/ \E e \in CatalogueRequests : \E env \in EnvsFor(e) : doPost(e, env)
  \/ \E e \in CatalogueRequests : \E env \in EnvsFor(e) : doPost_part_000(e, env)
  \/ Tick

SpecCatalogue == InitCatalogue /\ [][NextCatalogue]_vars

\* the days a call that began at entry.now can have seen
CallDays == {DayOf(entry.now), DayOf(IF entry.now < MaxNow THEN entry.now + 1 ELSE entry.now)}

\* the table row i (below the header) is of this type and valid on day d
RowIs(i, type, d) ==
  LET r == masterSheet.data[i + 1] IN
  r[2] = Str(type) /\ ValidOnDay(r[4], r[5], d)

RECURSIVE NamesFrom(_, _, _, _)
NamesFrom(i, type, group, d) ==
  IF i > MasterLen THEN <<>>
  ELSE (IF RowIs(i, type, d) /\ (group = Null \/ masterSheet.data[i + 1][1] = group)
        THEN <<masterSheet.data[i + 1][3]>> ELSE <<>>)
       \o NamesFrom(i + 1, type, group, d)

\* C2: getPrograms returns success with exactly the Record_Name of every
\* PROGRAM row valid today, in table order, duplicates kept; today is the
\* day on which the call began or the day on which it ended.
ProgramsAreThoseValidToday ==
  (/\ Called
   /\ request.action = Str("getPrograms")
   /\ masterSheet.status = "ok") =>
    \E d \in CallDays :
      /\ response.success
      /\ response.programs = NamesFrom(1, "PROGRAM", Null, d)

\* C3: getRequests with a non-empty program returns success with exactly
\* the Record_Name of every REQUEST row of that group valid today, in table
\* order; today is the day on which the call began or ended.
RequestsAreThoseValidToday ==
  (/\ Called
   /\ request.action = Str("getRequests")
   /\ Truthy(request.program)
   /\ masterSheet.status = "ok") =>
    \E d \in CallDays :
      /\ response.success
      /\ response.requests = NamesFrom(1, "REQUEST", request.program, d)

-----------------------------------------------------------------------------
(* verifyEmail against every small MASTER table of REGISTER and REGFORM    *)
(* rows                                                                    *)

RegisterRows ==
  {Always("P1", "REGISTER", "Registered Users", Url1),
   Starting("P1", "REGISTER", "Registered Users", Url2),
   Ending("P1", "REGISTER", "Registered Users", Url2),
   Always("P1", "REGISTER", "Registered Users", ""),
   Always("P2", "REGISTER", "Registered Users", Url2),
   Always("P1", "REGFORM", "Registration Form", FormUrl)}

RegisterTables ==
  {Sheet(d) : d \in SheetsUpTo(HeaderRow, RegisterRows, MaxRegRows)}

VerifyRequests ==
  {Req(Str("verifyEmail"), Undefined, Str("P1"), m, Undefined, Undefined) :
     m \in {Str("x@y.com"), Str("q@y.com")}}

InitVerify ==
  /\ backend = "Webapp.gs"
  /\ masterSheet \in RegisterTables
  /\ regSheets = [id \in {"abc-1_2", "XyZ9"} |->
                    IF id = "abc-1_2" THEN RegList1 ELSE RegList2]
  /\ outputSheet = NoSheet
  /\ secret = Null
  /\ now = LastEve
  /\ request = NoCall
  /\ response = NoCall
  /\ trace = <<>>
  /\ entry = [now |-> now, output |-> outputSheet, env |-> NoEnv]
  /\ fnArgs = NoCall
  /\ fnResult = NoCall
  /\ running = NotRunning
  /\ page = NoPage

NextVerify ==
  \/ \E e \in VerifyRequests : \E env \in EnvsFor(e) : doPost(e, env)
  \/ Tick

SpecVerify == InitVerify /\ [][NextVerify]_vars

\* the REGISTER rows of the group that are valid on day d
ValidRegisters(group, d) ==
  {i \in 1..MasterLen :
     RowIs(i, "REGISTER", d) /\ masterSheet.data[i + 1][1] = group}

LastOf(S) == CHOOSE i \in S : \A j \in S : j <= i

\* the spreadsheet a Content of this model names
ListNamedBy(content) ==
  CASE content = Str(Url1) -> "abc-1_2"
    [] content = Str(Url2) -> "XyZ9"
    [] OTHER -> ""

\* the registration lists the call opened
Opened == {trace[k].arg : k \in {j \in 1..Len(trace) : trace[j].op = "openById"}}

\* C4: when several REGISTER rows of the program are valid today,
\* verifyEmail consults the list named by the Content of the last of them
\* and no other; when that Content is empty no list is consulted.  Today is
\* the day on which the call began or ended.
LastValidRegisterIsUsed ==
  (/\ Called
   /\ request.action = Str("verifyEmail")
   /\ Truthy(request.program)
   /\ Truthy(request.email)
   /\ masterSheet.status = "ok") =>
    \E d \in CallDays :
      LET valid == ValidRegisters(request.program, d) IN
      Cardinality(valid) >= 2 =>
        LET content == masterSheet.data[LastOf(valid) + 1][6] IN
        Opened = (IF content = Blank THEN {} ELSE {ListNamedBy(content)})

-----------------------------------------------------------------------------
(* verifyEmail against MASTER tables with at most one                       *)
(* REGISTER row, of every kind of Content, followed by REGFORM rows; the   *)
(* list XyZ9 cannot be opened                                              *)

FormUrl2 == "https://g.co/form2"

LookupRegisters ==
  {<<>>,
   <<Always("P1", "REGISTER", "Registered Users", Url1)>>,
   <<Always("P1", "REGISTER", "Registered Users", Url2)>>,
   <<Always("P1", "REGISTER", "Registered Users", BadUrl)>>,
   <<Always("P1", "REGISTER", "Registered Users", FormUrl)>>,
   <<Always("P1", "REGISTER", "Registered Users", "")>>,
   <<Ending("P1", "REGISTER", "Registered Users", Url1)>>}

FormRows ==
  {Always("P1", "REGFORM", "Registration Form", FormUrl),
   Starting("P1", "REGFORM", "Registration Form", FormUrl2),
   Ending("P1", "REGFORM", "Registration Form", FormUrl2),
   Always("P1", "REGFORM", "Registration Form", ""),
   Always("P2", "REGFORM", "Registration Form", FormUrl2)}

\* REGFORM rows only follow a REGISTER row whose list is looked at
LookupTables ==
  {Sheet(<<HeaderRow>> \o reg) : reg \in LookupRegisters}
  \cup {Sheet(<<HeaderRow, Always("P1", "REGISTER", "Registered Users", u)>>
              \o SubSeq(f, 2, Len(f))) :
          u \in {Url1, Url2}, f \in SheetsUpTo(HeaderRow, FormRows, MaxRows)}

LookupRequests ==
  {Req(Str("verifyEmail"), Undefined, Str("P1"), m, Undefined, Undefined) :
     m \in {Str("x@y.com"), Str("q@y.com")}}

InitLookup ==
  /\ backend \in {"Webapp.gs", "Code.gs"}
  /\ masterSheet \in LookupTables
  /\ regSheets = [id \in {"abc-1_2", "XyZ9"} |->
                    IF id = "abc-1_2" THEN RegList1 ELSE Unreachable]
  /\ outputSheet = NoSheet
  /\ secret = Null
  /\ now = LastEve
  /\ request = NoCall
  /\ response = NoCall
  /\ trace = <<>>
  /\ entry = [now |-> now, output |-> outputSheet, env |-> NoEnv]
  /\ fnArgs = NoCall
  /\ fnResult = NoCall
  /\ running = NotRunning
  /\ page = NoPage

NextLookup ==
  \/ \E e \in LookupRequests : \E env \in EnvsFor(e) : doPost(e, env)
  \/ \E e \in LookupRequests : \E env \in EnvsFor(e) : doPost_part_000(e, env)

SpecLookup == InitLookup /\ [][NextLookup]_vars

-----------------------------------------------------------------------------
(* Every action of doPost against workbooks that are broken in one way:    *)
(* MASTER missing or unavailable, a misnamed column, a malformed date, a   *)
(* registration list that cannot be opened, no output sheet                *)

\* Valid_Till is headed Valid_Until
MisnamedHeader == <<Str("Group"), Str("Record_Type"), Str("Record_Name"),
                    Str("Valid_From"), Str("Valid_Until"), Str("Content")>>

\* P1 ended on the day of LastEve; P2 has no dates
ProgramRows ==
  <<Ending("P1", "PROGRAM", "P1", ""), Always("P2", "PROGRAM", "P2", "")>>

\* "soon" in Valid_From of P1
MalformedRows ==
  <<MasterRow("P1", "PROGRAM", "P1", Str("soon"), Blank, ""),
    Always("P2", "PROGRAM", "P2", "")>>

FaultyMasters ==
  {PortalMaster, NoSheet, MasterUnavailable,
   Sheet(<<HeaderRow>> \o ProgramRows),
   Sheet(<<MisnamedHeader>> \o ProgramRows),
   Sheet(<<HeaderRow>> \o MalformedRows)}

FaultRequests ==
  {Req(a, Undefined, Undefined, Undefined, Undefined, Undefined) :
     a \in {Undefined, Str("bogus"), Str("getPrograms")}}
  \cup {Req(Str("getRequests"), Undefined, p, Undefined, Undefined, Undefined) :
          p \in {Undefined, Str(""), Str("P1")}}
  \cup {Req(Str("verifyEmail"), Undefined, pm[1], pm[2], Undefined, Undefined) :
          pm \in {<<Str("P1"), Str("x@y.com")>>,
                  <<Undefined, Str("x@y.com")>>, <<Str(""), Str("x@y.com")>>,
                  <<Str("P1"), Undefined>>, <<Str("P1"), Str("")>>}}
  \cup {Req(Str("submitRequest"), Undefined, Str("P1"), m,
            Arr(<<Str("A")>>), Str("tok")) : m \in {Str("x@y.com"), Str("q@y.com")}}

InitFaults ==
  /\ backend \in {"Webapp.gs", "Code.gs"}
  /\ masterSheet \in FaultyMasters
  /\ regSheets \in [{"abc-1_2"} -> {RegList1, Unreachable}]
  /\ outputSheet \in {NoSheet, Sheet(<<PriorRow>>)}
  /\ secret = Str("6Lsecret")
  /\ now = MaxNow - 1
  /\ request = NoCall
  /\ response = NoCall
  /\ trace = <<>>
  /\ entry = [now |-> now, output |-> outputSheet, env |-> NoEnv]
  /\ fnArgs = NoCall
  /\ fnResult = NoCall
  /\ running = NotRunning
  /\ page = NoPage

NextFaults ==
  \/ \E e \in FaultRequests : \E env \in EnvsFor(e) : doPost(e, env)
  \/ \E e \in FaultRequests : \E env \in EnvsFor(e) : doPost_part_000(e, env)

SpecFaults == InitFaults /\ [][NextFaults]_vars

\* a call was made and it got past the honeypot check
Served == request # NoCall /\ ~HoneyFilledIn(request)

\* C11: verifyEmail without a program or without an email, and getRequests
\* without a program, get the missing-field failure response, and the call
\* has read no MASTER sheet and opened no registration list.
MissingFieldsFailFirst ==
  Served =>
    /\ (/\ request.action = Str("verifyEmail")
        /\ (~Truthy(request.program) \/ ~Truthy(request.email))) =>
         (response = jsonError("Program and email are required") /\ trace = <<>>)
    /\ (request.action = Str("getRequests") /\ ~Truthy(request.program)) =>
         (response = jsonError("Program is required") /\ trace = <<>>)

\* verifyEmail with an empty email against a workbook that is in order
EmptyEmailRejected ==
  /\ Served
  /\ request.action = Str("verifyEmail")
  /\ request.program = Str("P1")
  /\ request.email = Blank
  /\ masterSheet = PortalMaster
  /\ regSheets["abc-1_2"] = RegList1
  /\ ~response.success

\* the day on which the k-th reading of the clock of the last call fell
ReadDay(k) == DayOf(IF k <= entry.env.tickAt THEN entry.now ELSE entry.now + 1)

\* the last row of this type and of the program of the last call that was
\* valid on the day it was read (0: none); base counts the readings before
\* the scan
LastRowRead(type, base) ==
  LET S == {i \in 1..MasterLen :
              /\ masterSheet.data[i + 1][1] = request.program
              /\ masterSheet.data[i + 1][2] = Str(type)
              /\ ValidOnDay(masterSheet.data[i + 1][4], masterSheet.data[i + 1][5],
                            ReadDay(base + i))}
  IN IF S = {} THEN 0 ELSE LastOf(S)

\* the last call was a verifyEmail with both fields that got to read MASTER
VerifyCall ==
  /\ Served
  /\ request.action = Str("verifyEmail")
  /\ Truthy(request.program)
  /\ Truthy(request.email)
  /\ masterSheet.status = "ok"

NotFoundResponse == jsonError("Registration sheet not found for this program")

\* C12: when the program has no REGISTER row that is valid on the day the
\* row is read, or the selected REGISTER row (the last such row) has an empty
\* Content, verifyEmail returns the "registration sheet not found" failure
\* and opens no registration list.
NoRegisterMeansNotFound ==
  VerifyCall =>
    LET reg == LastRowRead("REGISTER", 0) IN
    (reg = 0 \/ masterSheet.data[reg + 1][6] = Blank) =>
      (response = NotFoundResponse /\ Opened = {})

\* the only REGISTER row of the program has an empty Content
EmptyContentNotFound ==
  /\ VerifyCall
  /\ masterSheet.data =
       <<HeaderRow, Always("P1", "REGISTER", "Registered Users", "")>>
  /\ response = NotFoundResponse

InvalidUrlResponse == jsonError("Invalid registration sheet URL")

\* C13: when the Content of the selected REGISTER row does not match
\* /spreadsheets/d/{ID}, verifyEmail returns the "invalid registration sheet
\* URL" failure, which is not the "not found" failure, and opens no list;
\* when it matches, the one list opened is the one named by the {ID} segment.
ContentDecidesTheList ==
  VerifyCall =>
    LET reg == LastRowRead("REGISTER", 0) IN
    (reg # 0 /\ masterSheet.data[reg + 1][6] # Blank) =>
      LET id == ListNamedBy(masterSheet.data[reg + 1][6]) IN
      IF id = ""
      THEN response = InvalidUrlResponse /\ Opened = {}
      ELSE /\ Opened = {id}
           /\ response \notin {InvalidUrlResponse, NotFoundResponse}

\* a Content that ends where the id should begin
UrlWithoutIdRejected ==
  /\ VerifyCall
  /\ masterSheet.data =
       <<HeaderRow, Always("P1", "REGISTER", "Registered Users", BadUrl)>>
  /\ response = InvalidUrlResponse
  /\ InvalidUrlResponse # NotFoundResponse

\* the list the selected REGISTER row names cannot be opened or read
ListFetchFails ==
  /\ VerifyCall
  /\ LET reg == LastRowRead("REGISTER", 0) IN
       /\ reg # 0
       /\ LET id == ListNamedBy(masterSheet.data[reg + 1][6]) IN
            /\ id # ""
            /\ (id \notin DOMAIN regSheets \/ regSheets[id].status # "ok")

\* what registrationUrl may be after the REGFORM scan of the last call: the
\* Content of the selected REGFORM row, null when there is none, and null or
\* the empty Content when the Content is empty
FormUrlsRead ==
  LET form == LastRowRead("REGFORM", MasterLen) IN
  IF form = 0 THEN {Null}
  ELSE IF masterSheet.data[form + 1][6] = Blank THEN {Null, Blank}
  ELSE {masterSheet.data[form + 1][6]}

\* C14: when the registration list cannot be opened or read, verifyEmail
\* answers success with registered false and the registrationUrl of the
\* REGFORM row, as for an email that is not in the list; it never answers
\* with an error.
ListFailureMeansNotRegistered ==
  ListFetchFails =>
    /\ DOMAIN response = {"success", "registered", "registrationUrl"}
    /\ response.success
    /\ ~response.registered
    /\ response.registrationUrl \in FormUrlsRead

\* the list cannot be opened and the program has a registration form
UnreadableListOffersForm ==
  /\ ListFetchFails
  /\ response.success
  /\ ~response.registered
  /\ response.registrationUrl = Str(FormUrl)

\* the REGFORM rows of the program that are valid on day d
ValidForms(d) ==
  {i \in 1..MasterLen :
     RowIs(i, "REGFORM", d) /\ masterSheet.data[i + 1][1] = request.program}

\* C15: a registered email gets registered true and no registrationUrl; an
\* unregistered one gets registered false and the Content of the last
\* REGFORM row of the program that is valid today, or null when there is no
\* such row or its Content is empty.  Today is the day on which the call
\* began or ended.
RegistrationUrlIsLastForm ==
  (VerifyCall /\ response.success) =>
    IF response.registered
    THEN DOMAIN response = {"success", "registered"}
    ELSE \E d \in CallDays :
           LET S == ValidForms(d)
               content == IF S = {} THEN Null ELSE masterSheet.data[LastOf(S) + 1][6]
           IN response.registrationUrl = (IF content = Blank THEN Null ELSE content)

\* the last call ran into a failure of the MASTER read, of the siteverify
\* call, of the output sheet lookup or of the append, or had no known action
StoreOrServiceFailed ==
  \/ request.action \notin {Str("getPrograms"), Str("verifyEmail"),
                            Str("getRequests"), Str("submitRequest")}
  \/ HasEvent(trace, "getMasterSheetData") /\ masterSheet.status # "ok"
  \/ HasEvent(trace, "fetch") /\ entry.env.captcha.kind # "json"
  \/ HasEvent(trace, "getSheetByName") /\ entry.output.status # "ok"
  \/ HasEvent(trace, "appendRow") /\ entry.env.appendFails

IsFailureResponse ==
  /\ DOMAIN response = {"success", "message"}
  /\ response.success = FALSE

MasterReadFailed ==
  /\ Served
  /\ HasEvent(trace, "getMasterSheetData")
  /\ masterSheet.status # "ok"

\* the text the client gets for a failed MASTER read that tells nothing but
\* the operation that failed
GenericMessage(action) ==
  IF action = Str("getPrograms") THEN "Error loading programs"
  ELSE IF action = Str("verifyEmail") THEN "Error verifying email"
  ELSE "Error loading requests"

\* s ends with t
EndsWith(s, t) ==
  Len(t) <= Len(s) /\ SubSeq(s, Len(s) - Len(t) + 1, Len(s)) = t

\* C17: when the MASTER sheet cannot be read, the message the client gets is
\* the same whatever the cause: it is the generic text of the operation and
\* carries neither the sheet name nor the text of the exception.
MasterFailureMessageIsGeneric ==
  MasterReadFailed =>
    /\ IsFailureResponse
    /\ response.message = GenericMessage(request.action)
    /\ ~EndsWith(response.message, getMasterSheetData.error)
    /\ ~EndsWith(response.message, "'" \o CONFIG_MASTER_SHEET_NAME \o "' not found")

\* the columns of the MASTER sheet that the handlers read
RequiredColumns ==
  {"Group", "Record_Type", "Record_Name", "Valid_From", "Valid_Till", "Content"}

\* the required columns that the header row of the MASTER sheet lacks
MissingColumns ==
  IF masterSheet.status # "ok" THEN {}
  ELSE {c \in RequiredColumns :
          \A j \in 1..Len(masterSheet.data[1]) : masterSheet.data[1][j] # Str(c)}

\* t occurs in s
Contains(s, t) ==
  \E i \in 1..(Len(s) - Len(t) + 1) : SubSeq(s, i, i + Len(t) - 1) = t

\* C18: a query that reads a MASTER sheet whose header row lacks a required
\* column is answered with a failure that names a missing column, never with
\* a success computed from undefined fields.
MissingColumnIsSchemaError ==
  (Served /\ HasEvent(trace, "getMasterSheetData") /\ MissingColumns # {}) =>
    /\ IsFailureResponse
    /\ \E c \in MissingColumns : Contains(response.message, c)

\* a date cell that is neither empty nor a date
MalformedDate(v) == v.k = "string" /\ v # Blank

\* the rows of the MASTER sheet whose validity the last call has judged in
\* its first scan: every PROGRAM row for getPrograms, the REQUEST rows of the
\* program for getRequests, the REGISTER rows of the program for verifyEmail
RowsJudged ==
  IF ~(Served /\ HasEvent(trace, "getMasterSheetData") /\ masterSheet.status = "ok")
  THEN {}
  ELSE {i \in 1..MasterLen :
          LET r == masterSheet.data[i + 1] IN
          \/ request.action = Str("getPrograms") /\ r[2] = Str("PROGRAM")
          \/ /\ request.action = Str("getRequests")
             /\ r[1] = request.program /\ r[2] = Str("REQUEST")
          \/ /\ request.action = Str("verifyEmail")
             /\ r[1] = request.program /\ r[2] = Str("REGISTER")}

\* C19: a query that judges a MASTER row whose Valid_From or Valid_Till is a
\* malformed date is answered with the failure "invalid date in master
\* table"; the row is never kept in or dropped from a success response.
MalformedDateIsParseError ==
  (\E i \in RowsJudged :
      \/ MalformedDate(masterSheet.data[i + 1][4])
      \/ MalformedDate(masterSheet.data[i + 1][5])) =>
    /\ IsFailureResponse
    /\ Contains(response.message, "invalid date in master table")

\* the last call was a submitRequest that appended a row to the output sheet
SubmissionAppended ==
  /\ Served
  /\ request.action = Str("submitRequest")
  /\ response.success
  /\ entry.output.status = "ok"
  /\ Len(outputSheet.data) = Len(entry.output.data) + 1

\* row i of the MASTER sheet is a record of this type and name that belongs to
\* the group and is valid on day d
RecordOn(i, group, type, name, d) ==
  LET r == masterSheet.data[i + 1] IN
  /\ r[1] = group /\ r[3] = name
  /\ ~MalformedDate(r[4]) /\ ~MalformedDate(r[5])
  /\ RowIs(i, type, d)

\* on day d the program of the last call is a valid PROGRAM, its email is in
\* the list that the last valid REGISTER row of the program names, and each
\* of its requests is a valid REQUEST of the program
SubmissionAllowedOn(d) ==
  /\ \E i \in 1..MasterLen :
       RecordOn(i, request.program, "PROGRAM", request.program, d)
  /\ LET S == ValidRegisters(request.program, d) IN
       /\ S # {}
       /\ checkEmailInSheet(ListNamedBy(masterSheet.data[LastOf(S) + 1][6]),
                            request.email)
  /\ request.requests.k = "array"
  /\ \A k \in 1..Len(request.requests.a) :
       \E i \in 1..MasterLen :
         RecordOn(i, request.program, "REQUEST", request.requests.a[k], d)

\* C20: submitRequest appends a row only if, today, the program is a valid
\* PROGRAM, the email is in the program's registration list and every
\* request is a valid REQUEST of the program.  Today is the day on which the
\* call began or ended.
AppendOnlyWhenAllowed ==
  SubmissionAppended => \E d \in CallDays : SubmissionAllowedOn(d)

-----------------------------------------------------------------------------
(* The sheets are edited between calls.  An administrator changes the      *)
(* MASTER sheet or a registration list in the spreadsheet UI; the scripts  *)
(* are not involved.  After an edit the request on record is dropped, so   *)
(* that a request on record always belongs to a call made against the      *)
(* sheets as they stand; the last response stays on record.                *)

FreshTables ==
  {PortalMaster,
   NoSheet,
   Sheet(<<HeaderRow,
           Ending("P1", "PROGRAM", "P1", ""),
           Always("P2", "PROGRAM", "P2", ""),
           Starting("P1", "REQUEST", "B", "")>>),
   Sheet(<<HeaderRow,
           Always("P1", "REGISTER", "Registered Users", Url1),
           Ending("P1", "REGFORM", "Form", FormUrl),
           Always("P1", "REQUEST", "A", "")>>)}

FreshLists == {RegList1, RegList2, Unreachable}

FreshRequests ==
  {Req(Str("getPrograms"), Undefined, Undefined, Undefined, Undefined, Undefined),
   Req(Str("getRequests"), Undefined, Str("P1"), Undefined, Undefined, Undefined),
   Req(Str("verifyEmail"), Undefined, Str("P1"), Str("x@y.com"), Undefined, Undefined),
   Req(Str("verifyEmail"), Undefined, Str("P1"), Str("z@y.com"), Undefined, Undefined)}

InitFresh ==
  /\ backend \in {"Webapp.gs", "Code.gs"}
  /\ masterSheet = PortalMaster
  /\ regSheets = [id \in {"abc-1_2"} |-> RegList1]
  /\ outputSheet = Sheet(<<PriorRow>>)
  /\ secret = Str("6Lsecret")
  /\ now = LastEve
  /\ request = NoCall
  /\ response = NoCall
  /\ trace = <<>>
  /\ entry = [now |-> now, output |-> outputSheet, env |-> NoEnv]
  /\ fnArgs = NoCall
  /\ fnResult = NoCall
  /\ running = NotRunning
  /\ page = NoPage

EditMaster(t) ==
  /\ t # masterSheet
  /\ masterSheet' = t
  /\ request' = NoCall
  /\ UNCHANGED <<backend, regSheets, outputSheet, secret, now, response, trace,
                 entry, fnArgs, fnResult>>
  /\ UNCHANGED <<running, page>>

EditList(id, l) ==
  /\ l # regSheets[id]
  /\ regSheets' = [regSheets EXCEPT ![id] = l]
  /\ request' = NoCall
  /\ UNCHANGED <<backend, masterSheet, outputSheet, secret, now, response, trace,
                 entry, fnArgs, fnResult>>
  /\ UNCHANGED <<running, page>>

NextFresh ==
  \/ \E e \in FreshRequests : \E env \in EnvsFor(e) : doPost(e, env)
  \/ \E e \in FreshRequests : \E env \in EnvsFor(e) : doPost_part_000(e, env)
  \/ \E t \in FreshTables : EditMaster(t)
  \/ \E id \in DOMAIN regSheets : \E l \in FreshLists : EditList(id, l)

SpecFresh == InitFresh /\ [][NextFresh]_vars

\* Record_Name of rows i.. of the MASTER sheet that are of this type, belong
\* to the group (any group when it is null) and are valid on the day on which
\* the last call read them
RECURSIVE NamesRead(_, _, _)
NamesRead(i, type, group) ==
  IF i > MasterLen THEN <<>>
  ELSE (IF /\ RowIs(i, type, ReadDay(i))
           /\ (group = Null \/ masterSheet.data[i + 1][1] = group)
        THEN <<masterSheet.data[i + 1][3]>> ELSE <<>>)
       \o NamesRead(i + 1, type, group)

\* the email of the last call stands in column A of the list, below its
\* header row, as the list is now
InListNow(id) ==
  /\ id \in DOMAIN regSheets
  /\ regSheets[id].status = "ok"
  /\ \E k \in 2..Len(regSheets[id].data) : regSheets[id].data[k][1] = request.email

\* what verifyEmail answers from the MASTER sheet and the list as they are now
VerifiedFromSheetsNow ==
  LET reg == LastRowRead("REGISTER", 0) IN
  IF reg = 0 \/ masterSheet.data[reg + 1][6] = Blank
  THEN response = NotFoundResponse /\ Opened = {}
  ELSE LET id == ListNamedBy(masterSheet.data[reg + 1][6]) IN
       IF id = "" THEN response = InvalidUrlResponse /\ Opened = {}
       ELSE /\ Opened = {id}
            /\ response.success
            /\ response.registered = InListNow(id)
            /\ ~response.registered => response.registrationUrl \in FormUrlsRead

\* C21: nothing is cached across calls.  Every getPrograms, getRequests and
\* verifyEmail call reads the MASTER sheet, every verifyEmail call that gets
\* as far opens the registration list, and the response is the one that the
\* sheets give as they are at the time of the call, whatever they were at the
\* time of earlier calls.
NothingIsCached ==
  Served =>
    /\ HasEvent(trace, "getMasterSheetData")
    /\ IF masterSheet.status # "ok" THEN IsFailureResponse
       ELSE CASE request.action = Str("getPrograms") ->
                   response = [success |-> TRUE,
                               programs |-> NamesRead(1, "PROGRAM", Null)]
              [] request.action = Str("getRequests") ->
                   response = [success |-> TRUE,
                               requests |-> NamesRead(1, "REQUEST", request.program)]
              [] request.action = Str("verifyEmail") -> VerifiedFromSheetsNow

\* an earlier call has moved the clock, the table that held P1 has been
\* replaced since, and getPrograms answers [P2]
SecondCallSeesTheEdit ==
  /\ Served
  /\ request.action = Str("getPrograms")
  /\ masterSheet # PortalMaster
  /\ masterSheet.status = "ok"
  /\ entry.now > LastEve
  /\ response = [success |-> TRUE, programs |-> <<Str("P2")>>]

\* sheet b holds the rows of sheet a, unaltered and in their order, before
\* any further rows
ExtendsSheet(a, b) ==
  /\ a.status = b.status
  /\ Len(a.data) <= Len(b.data)
  /\ SubSeq(b.data, 1, Len(a.data)) = a.data

\* C22: no call changes the MASTER sheet or a registration list; getPrograms,
\* verifyEmail and getRequests, and every call that is not a submitRequest,
\* leave the output sheet as it is; a submitRequest leaves the rows that the
\* output sheet holds unaltered, in their order and in place, in every
\* outcome.
CallsOnlyAppend ==
  [][/\ masterSheet' = masterSheet
     /\ regSheets' = regSheets
     /\ ExtendsSheet(outputSheet, outputSheet')
     /\ ~(/\ request' # NoCall
           /\ request'.action = Str("submitRequest")
           /\ response'.success) =>
          outputSheet' = outputSheet]_vars

\* a submission has put its row below the row that the output sheet held
RowAddedBelowPrior ==
  /\ Served
  /\ request.action = Str("submitRequest")
  /\ response.success
  /\ Len(outputSheet.data) = 2
  /\ outputSheet.data[1] = PriorRow
  /\ outputSheet.data[2][3] = request.email

-----------------------------------------------------------------------------
(* Several submitRequest calls at the same time.  Apps Script runs each    *)
(* doPost in an execution of its own; neither backend takes a lock         *)
(* (LockService is not used), so the executions share the output sheet     *)
(* with nothing between them but what appendRow itself provides.  Whether  *)
(* the store appends a row in one step is not settled by the scripts:      *)
(* running.atomic is either.  Without it appendRow finds the last row and  *)
(* then writes the cells of the row below it, one at a time.               *)

Executions == 1..MaxOverlap

IdleExecution ==
  [pc |-> "idle", row |-> <<>>, idx |-> 0, cell |-> 0, response |-> NoCall]

OverlapRequests ==
  {Req(Str("submitRequest"), Undefined, Str("P1"), Str("x@y.com"),
       Arr(<<Str("A")>>), Str("tok")),
   Req(Str("submitRequest"), Undefined, Str("P1"), Str("z@y.com"),
       Arr(<<Str("A"), Str("B")>>), Str("tok")),
   Req(Str("submitRequest"), Undefined, Str("P1"), Str("z@y.com"),
       Arr(<<>>), Str("tok"))}

InitOverlap ==
  /\ backend \in {"Webapp.gs", "Code.gs"}
  /\ masterSheet = PortalMaster
  /\ regSheets = [id \in {"abc-1_2"} |-> RegList1]
  /\ outputSheet = Sheet(<<PriorRow>>)
  /\ secret = Str("6Lsecret")
  /\ now = 1
  /\ request = NoCall
  /\ response = NoCall
  /\ trace = <<>>
  /\ entry = [now |-> now, output |-> outputSheet, env |-> NoEnv]
  /\ fnArgs = NoCall
  /\ fnResult = NoCall
  /\ running \in [atomic : BOOLEAN, exec : [Executions -> {IdleExecution}]]
  /\ page = NoPage

\* execution p runs doPost up to the appendRow call: the row is built and the
\* response is decided, the row is not yet in the sheet
BeginSubmit(p, e, env) ==
  /\ running.exec[p].pc = "idle"
  /\ LET r == Deployed(e, env)
         appends == HasEvent(r.trace, "appendRow") /\ r.response.success
     IN running' =
          [running EXCEPT !.exec[p] =
             [pc |-> IF appends THEN "appendRow" ELSE "returned",
              row |-> IF appends THEN r.output.data[Len(r.output.data)] ELSE <<>>,
              idx |-> 0, cell |-> 0,
              response |-> r.response]]
  /\ UNCHANGED <<backend, masterSheet, regSheets, outputSheet, secret, now,
                 request, response, trace, entry, fnArgs, fnResult, page>>

\* appendRow on a store that appends in one step
AppendRowAtomic(p) ==
  /\ running.atomic
  /\ running.exec[p].pc = "appendRow"
  /\ outputSheet' = Sheet(Append(outputSheet.data, running.exec[p].row))
  /\ running' = [running EXCEPT !.exec[p].pc = "returned"]
  /\ UNCHANGED <<backend, masterSheet, regSheets, secret, now,
                 request, response, trace, entry, fnArgs, fnResult, page>>

\* appendRow on a store that does not: first find the row below the last one
GetLastRow(p) ==
  /\ ~running.atomic
  /\ running.exec[p].pc = "appendRow"
  /\ running' = [running EXCEPT !.exec[p].pc = "setValue",
                                !.exec[p].idx = Len(outputSheet.data) + 1,
                                !.exec[p].cell = 1]
  /\ UNCHANGED <<backend, masterSheet, regSheets, outputSheet, secret, now,
                 request, response, trace, entry, fnArgs, fnResult, page>>

\* the rows after cell j of row i has been set to v; row i is created empty
\* when the sheet ends above it
WithCell(data, i, j, v) ==
  LET grown == IF Len(data) < i THEN Append(data, <<Blank, Blank, Blank, Blank>>)
               ELSE data
  IN [grown EXCEPT ![i][j] = v]

\* then write the next cell of that row
SetValue(p) ==
  LET x == running.exec[p] IN
  /\ x.pc = "setValue"
  /\ outputSheet' = Sheet(WithCell(outputSheet.data, x.idx, x.cell, x.row[x.cell]))
  /\ running' = IF x.cell = Len(x.row)
                THEN [running EXCEPT !.exec[p].pc = "returned"]
                ELSE [running EXCEPT !.exec[p].cell = x.cell + 1]
  /\ UNCHANGED <<backend, masterSheet, regSheets, secret, now,
                 request, response, trace, entry, fnArgs, fnResult, page>>

NextOverlap ==
  \/ \E p \in Executions : \E e \in OverlapRequests :
       \E env \in {v \in EnvsFor(e) : v.tickAt = NoTick(e)} : BeginSubmit(p, e, env)
  \/ \E p \in Executions : AppendRowAtomic(p)
  \/ \E p \in Executions : GetLastRow(p)
  \/ \E p \in Executions : SetValue(p)
  \/ Tick

SpecOverlap == InitOverlap /\ [][NextOverlap]_vars

\* every execution has returned, and these are the ones that answered success
AllReturned ==
  /\ running # NotRunning
  /\ \A p \in Executions : running.exec[p].pc = "returned"

Succeeded == {p \in Executions : running.exec[p].response.success}

\* below the rows it held before, the output sheet holds the row of each
\* successful execution once, whole, and nothing else
OneIntactRowEach ==
  LET before == Len(entry.output.data)
      added == SubSeq(outputSheet.data, before + 1, Len(outputSheet.data))
  IN /\ SubSeq(outputSheet.data, 1, before) = entry.output.data
     /\ Len(added) = Cardinality(Succeeded)
     /\ \E f \in [1..Len(added) -> Succeeded] :
          /\ \A i, j \in 1..Len(added) : f[i] = f[j] => i = j
          /\ \A i \in 1..Len(added) : added[i] = running.exec[f[i]].row

VerifiedAsOn(d) ==
  LET S == ValidRegisters(request.program, d) IN
  IF S = {} \/ masterSheet.data[LastOf(S) + 1][6] = Blank
  THEN response = NotFoundResponse
  ELSE LET id == ListNamedBy(masterSheet.data[LastOf(S) + 1][6]) IN
       IF id = "" THEN response = InvalidUrlResponse
       ELSE /\ Opened = {id}
            /\ response.success
            /\ ~response.registered =>
                 LET F == ValidForms(d)
                     content == IF F = {} THEN Null
                                ELSE masterSheet.data[LastOf(F) + 1][6]
                 IN response.registrationUrl \in
                      (IF content = Blank THEN {Null, Blank} ELSE {content})

\* C24: within one call every MASTER row is judged against one and the same
\* date: there is a day D such that the programs, the requests, or the
\* REGISTER and REGFORM rows that the call has used are exactly those valid
\* on D, also when midnight passes while the rows are scanned.
OneDatePerCall ==
  (Served /\ masterSheet.status = "ok" /\ HasEvent(trace, "getMasterSheetData")) =>
    \E d \in 0..MaxDay :
      CASE request.action = Str("getPrograms") ->
             response.programs = NamesFrom(1, "PROGRAM", Null, d)
        [] request.action = Str("getRequests") ->
             response.requests = NamesFrom(1, "REQUEST", request.program, d)
        [] request.action = Str("verifyEmail") -> VerifiedAsOn(d)
        [] OTHER -> TRUE

-----------------------------------------------------------------------------
(* The portal page (script.js).  Each handler runs to its next await; the  *)
(* call it has made then waits in page.pending until its response comes,   *)
(* in any order, and the handler goes on from there.  What the server      *)
(* answers is not the page's to decide: every kind of response the handler *)
(* tells apart can come.  The null of state.currentProgram and the empty   *)
(* value of the dropdown are both "", no handler tells them apart.         *)

PagePrograms == {"P1", "P2"}
PageEmails == {"x@y.com", "q@y.com", "x@y"}

\* /^[^\s@]+@[^\s@]+\.[^\s@]+$/ : one @, no space, and after the @ a dot
\* with something on either side
isValidEmail(email) ==
  /\ \A i \in 1..Len(email) : ~IsSpace(SubSeq(email, i, i))
  /\ \E a \in 2..Len(email) :
       /\ \A i \in 1..Len(email) : (SubSeq(email, i, i) = "@") <=> (i = a)
       /\ \E dot \in (a + 2)..(Len(email) - 1) : SubSeq(email, dot, dot) = "."

\* the page once the programs are in the dropdown, nothing chosen or typed,
\* the submit button disabled as resetForm leaves it
LoadedPage ==
  [currentProgram |-> "", isEmailVerified |-> FALSE, emailInput |-> "",
   focused |-> FALSE,      \* the email field has the focus
   hidden |-> TRUE, requests |-> <<>>, checked |-> {}, submitDisabled |-> TRUE,
   honeypot |-> "", pending |-> <<>>,
   applied |-> NoCall,     \* the last verifyEmail response applied, and its call
   sent |-> NoCall]        \* of the last submitRequest sent: whether applied
                           \* then was registered true for its program and email

InitPage ==
  /\ backend \in {"Webapp.gs", "Code.gs"}
  /\ masterSheet = PortalMaster
  /\ regSheets = [id \in {"abc-1_2"} |-> RegList1]
  /\ outputSheet = Sheet(<<PriorRow>>)
  /\ secret = Str("6Lsecret")
  /\ now = 0
  /\ request = NoCall
  /\ response = NoCall
  /\ trace = <<>>
  /\ entry = [now |-> now, output |-> outputSheet, env |-> NoEnv]
  /\ fnArgs = NoCall
  /\ fnResult = NoCall
  /\ running = NotRunning
  /\ page \in {[LoadedPage EXCEPT !.honeypot = h] : h \in {"", "http://spam"}}

\* the page becomes p; script.js touches nothing else
Render(p) ==
  /\ page' = p
  /\ UNCHANGED <<backend, masterSheet, regSheets, outputSheet, secret, now,
                 request, response, trace, entry, fnArgs, fnResult, running>>

\* page p after makeAPICall(payload) has sent its fetch
makeAPICall(p, payload) == [p EXCEPT !.pending = Append(p.pending, payload)]

\* page.pending without its k-th call
Answered(k) ==
  SubSeq(page.pending, 1, k - 1) \o SubSeq(page.pending, k + 1, Len(page.pending))

handleProgramChange(value) ==
  /\ ~page.focused
  /\ value # page.currentProgram
  /\ Render([page EXCEPT !.currentProgram = value,
                         !.isEmailVerified = FALSE,
                         !.emailInput = "",
                         !.hidden = TRUE,
                         !.submitDisabled = TRUE])

\* the user puts the cursor into the email field and types, or leaves its
\* value as it is; no handler runs
TypeEmail(value) ==
  /\ value # page.emailInput \/ ~page.focused
  /\ Render([page EXCEPT !.emailInput = value, !.focused = TRUE])

\* blur of the email field, up to the await
handleEmailVerification ==
  LET email == trim(page.emailInput)
      program == page.currentProgram
      cleared == [page EXCEPT !.focused = FALSE,
                              !.hidden = TRUE,
                              !.isEmailVerified = FALSE,
                              !.submitDisabled = TRUE]
  IN /\ page.focused
     /\ IF program = "" \/ email = "" \/ ~isValidEmail(email)
        THEN Render(cleared)
        ELSE /\ Len(page.pending) < MaxPending
             /\ Render(makeAPICall(cleared, [action |-> "verifyEmail",
                                             program |-> program, email |-> email,
                                             requests |-> {}]))

\* handleEmailVerification from its await on, up to the await of loadRequests
VerifyEmailAnswered(k, kind) ==
  /\ k \in 1..Len(page.pending)
  /\ page.pending[k].action = "verifyEmail"
  /\ LET call == page.pending[k]
         rest == [page EXCEPT !.pending = Answered(k)]
     IN CASE kind = "registered" ->
               Render(makeAPICall(
                 [rest EXCEPT !.isEmailVerified = TRUE,
                              !.applied = [program |-> call.program,
                                           email |-> call.email,
                                           registered |-> TRUE]],
                 [action |-> "getRequests", program |-> call.program,
                  email |-> "", requests |-> {}]))
          [] kind = "unregistered" ->
               Render([rest EXCEPT !.isEmailVerified = FALSE,
                                   !.applied = [program |-> call.program,
                                                email |-> call.email,
                                                registered |-> FALSE]])
          [] OTHER -> Render(rest)       \* success false, or fetch threw

\* loadRequests from its await on: displayRequests builds new, unchecked
\* checkboxes and the section is shown
loadRequests(k, list) ==
  /\ k \in 1..Len(page.pending)
  /\ page.pending[k].action = "getRequests"
  /\ LET rest == [page EXCEPT !.pending = Answered(k)] IN
     IF Len(list) > 0
     THEN Render([rest EXCEPT !.requests = list, !.checked = {}, !.hidden = FALSE])
     ELSE Render(rest)                   \* none, success false, or fetch threw

\* the user ticks or clears a checkbox that is on show, the focus being
\* elsewhere than in the email field; its change handler
validateForm(i) ==
  /\ ~page.focused
  /\ ~page.hidden
  /\ i \in 1..Len(page.requests)
  /\ LET checked == IF i \in page.checked THEN page.checked \ {i}
                    ELSE page.checked \cup {i}
     IN Render([page EXCEPT !.checked = checked,
                            !.submitDisabled =
                              ~(page.isEmailVerified /\ checked # {})])

\* submit of the form, by the button or by the Enter key in the email field,
\* up to the await of getRecaptchaToken; a form is not submitted through a
\* submit button that is disabled
handleFormSubmit ==
  /\ ~page.submitDisabled
  /\ LET program == page.currentProgram
         email == trim(page.emailInput)
     IN IF page.honeypot # "" THEN Render(page)
        ELSE IF program = "" \/ email = "" \/ page.checked = {} THEN Render(page)
        ELSE /\ Len(page.pending) < MaxPending
             /\ Render(makeAPICall([page EXCEPT !.submitDisabled = TRUE],
                                   [action |-> "getRecaptchaToken",
                                    program |-> program, email |-> email,
                                    requests |-> page.checked]))

\* handleFormSubmit from the token on: the submitRequest call is sent, or the
\* token was refused and the catch block enables the button
getRecaptchaToken(k, resolved) ==
  /\ k \in 1..Len(page.pending)
  /\ page.pending[k].action = "getRecaptchaToken"
  /\ LET call == page.pending[k]
         rest == [page EXCEPT !.pending = Answered(k)]
     IN IF resolved
        THEN Render(makeAPICall(
               [rest EXCEPT !.sent =
                  [verified |-> page.applied = [program |-> call.program,
                                                email |-> call.email,
                                                registered |-> TRUE]]],
               [call EXCEPT !.action = "submitRequest"]))
        ELSE Render([rest EXCEPT !.submitDisabled = FALSE])

\* form.reset() and the rest of resetForm
resetForm(p) ==
  [p EXCEPT !.emailInput = "", !.checked = {}, !.honeypot = "",
            !.hidden = TRUE, !.isEmailVerified = FALSE,
            !.currentProgram = "", !.submitDisabled = TRUE]

\* handleFormSubmit from the response of submitRequest on
SubmitAnswered(k, success) ==
  /\ k \in 1..Len(page.pending)
  /\ page.pending[k].action = "submitRequest"
  /\ LET rest == [page EXCEPT !.pending = Answered(k)] IN
     IF success THEN Render(resetForm(rest))
     ELSE Render([rest EXCEPT !.submitDisabled = FALSE])   \* also when fetch threw

NextPage ==
  \/ \E v \in PagePrograms \cup {""} : handleProgramChange(v)
  \/ \E v \in PageEmails \cup {""} : TypeEmail(v)
  \/ handleEmailVerification
  \/ \E k \in 1..MaxPending :
       \E kind \in {"registered", "unregistered", "error"} : VerifyEmailAnswered(k, kind)
  \/ \E k \in 1..MaxPending : \E list \in {<<>>, <<"A">>} : loadRequests(k, list)
  \/ \E i \in 1..1 : validateForm(i)
  \/ handleFormSubmit
  \/ \E k \in 1..MaxPending : \E resolved \in BOOLEAN : getRecaptchaToken(k, resolved)
  \/ \E k \in 1..MaxPending : \E success \in BOOLEAN : SubmitAnswered(k, success)

SpecPage == InitPage /\ [][NextPage]_vars

\* C26: the submit button is enabled only if state.isEmailVerified is true
\* and at least one request checkbox is ticked, after any sequence of program
\* changes, blurs, checkbox changes, submissions and late responses.
ButtonEnabledOnlyWhenReady ==
  (page # NoPage /\ ~page.submitDisabled) =>
    (page.isEmailVerified /\ page.checked # {})

\* C25: every submitRequest call that the page sends carries a program and an
\* email for which the last verifyEmail response applied to the page, at the
\* time of sending, reported registered true for that program and that email.
SubmitsOnlyVerifiedPair ==
  (page # NoPage /\ page.sent # NoCall) => page.sent.verified

====
